---- MODULE Spec2Model ----
(***************************************************************************)
(* MemoraAI: the Elasticsearch memory store client (elastic_memory.py),    *)
(* the /ask request handler (main.py) and the lazy Vertex AI backend       *)
(* initialisation (vertex_ai.py).                                          *)
(*                                                                         *)
(* Three specifications share the module:                                  *)
(*   Spec        concurrent callers of upsert_chunk / knn_search /         *)
(*               hybrid_search against one Elasticsearch cluster           *)
(*   SpecAsk     one /ask request against a populated store                *)
(*   SpecVertex  concurrent get_embedding / generate_text requests racing  *)
(*               on the module-level _initialized flag (with fairness)     *)
(*                                                                         *)
(* A text is a sequence of characters; a character is a natural number,    *)
(* 0 being the newline.                                                    *)
(***************************************************************************)
EXTENDS Integers, Sequences, FiniteSets, TLC

VARIABLES
    indices,        \* es: the names of the indices that exist in the cluster
    store,          \* es: the documents of S.elastic_index, in write order
    pc,             \* per caller: the place the call has reached
    op,             \* per caller: the operation under way and its arguments
    err,            \* per caller: the exception that ended the call
    sent,           \* per caller: the search request bodies passed to es.search
    res,            \* per caller: the raw hits of the last successful es.search
    result,         \* per caller: the value the operation returned
    q_vec,          \* ask: the query embedding
    docs,           \* ask: the texts of the hits
    sel_idx,        \* ask: the indices mmr returned
    selected_docs,  \* ask: docs picked by sel_idx
    used,           \* ask: the count reported as used_snippets
    context_parts,  \* ask: the items the budget loop kept
    context,        \* ask: the joined context string
    budget,         \* ask: S.token_budget
    prompt,         \* ask: the memory section and question of the prompt
    response,       \* ask: the AskResponse returned
    initialized,    \* vertex_ai._initialized
    vpc,            \* per request: the place a vertex_ai call has reached
    vop,            \* per request: "get_embedding" or "generate_text"
    initCalls,      \* number of vertexai.init calls started
    initOk,         \* number of vertexai.init calls that returned normally
    earlyCall       \* per request: its model call started before any init succeeded

storeVars  == <<indices, store, pc, op, err, sent, res, result>>
askVars    == <<q_vec, docs, sel_idx, selected_docs, used, context_parts,
                context, budget, prompt, response>>
vertexVars == <<initialized, vpc, vop, initCalls, initOk, earlyCall>>
vars       == <<storeVars, askVars, vertexVars>>

----------------------------------------------------------------------------
(* Bounds of the model *)

NumCallers  == 2    \* concurrent callers of the store client
MaxDocs     == 2    \* documents written under Spec
MaxPool     == 2    \* documents in the store when /ask starts (SpecAsk)
MaxDocLen   == 4    \* characters in a stored text (SpecAsk)
MaxBudget   == 2    \* S.token_budget ranges over 1..MaxBudget
MaxReqK     == 1    \* AskRequest.k ranges over 1..MaxReqK
NumRequests == 3    \* concurrent requests into vertex_ai

Callers  == 1..NumCallers
Requests == 1..NumRequests
\* Two tenants: the one a search is scoped to, and another one.
Projects == {1, 2}

(* Program constants *)

DefaultK         == 8    \* k: int = 8
MinPool          == 15   \* max(k * 3, 15)
PoolFactor       == 3
MinCandidates    == 60   \* max(60, k * 10)
CandidateFactor  == 10
KnnMinCandidates == 20   \* max(20, k*5)
KnnFactor        == 5
RankConstant     == 20
LexicalBoost     == 2
AskMinK          == 15   \* k=max(15, req.k)
MmrMaxK          == 10   \* k=min(10, len(docs))
CharsPerToken    == 4    \* approx_token_count: characters per token

ElasticIndex == "memora"   \* S.elastic_index
Absent       == {}         \* a key the request body does not carry
NL           == 0          \* "\n"

\* A key the request body carries, with its value.
Some(x) == {x}

Max(a, b) == IF a >= b THEN a ELSE b
Min(a, b) == IF a <= b THEN a ELSE b

----------------------------------------------------------------------------
(* Texts and embeddings *)

\* The text of n copies of character ch.
MkText(ch, n) == [j \in 1..n |-> ch]

\* The embedding provider is a function of the text.
Embed(text) == [of |-> text]

\* str.join
RECURSIVE Join(_, _)
Join(sep, parts) ==
    IF parts = <<>> THEN <<>>
    ELSE IF Len(parts) = 1 THEN parts[1]
    ELSE parts[1] \o sep \o Join(sep, Tail(parts))

\* utils.approx_token_count: a length-based heuristic.
approx_token_count(text) == Len(text) \div CharsPerToken

----------------------------------------------------------------------------
(* The request bodies elastic_memory.py builds *)

ProjectFilter(project_id) == {[field |-> "project_id", value |-> project_id]}

KnnBody(project_id, query_vec, k) ==
    [ size     |-> k,
      source   |-> Absent,
      filter   |-> ProjectFilter(project_id),
      match    |-> Absent,
      knn      |-> [field |-> "embedding", query_vector |-> query_vec, k |-> k,
                    num_candidates |-> Max(KnnMinCandidates, k * KnnFactor),
                    boost |-> Absent],
      minimum_should_match |-> Absent,
      rank     |-> Absent ]

HybridBody(project_id, query_text, query_vec, k) ==
    [ size     |-> Max(k * PoolFactor, MinPool),
      source   |-> Some({"text", "tags", "project_id"}),
      filter   |-> ProjectFilter(project_id),
      match    |-> Some([field |-> "text", query |-> query_text,
                         boost |-> LexicalBoost, fuzziness |-> Some("AUTO")]),
      knn      |-> [field |-> "embedding", query_vector |-> query_vec,
                    k |-> Max(k * PoolFactor, MinPool),
                    num_candidates |-> Max(MinCandidates, k * CandidateFactor),
                    boost |-> Some(1)],
      minimum_should_match |-> Some(1),
      rank     |-> Some([rank_window_size |-> Max(k * PoolFactor, MinPool),
                         rank_constant |-> RankConstant]) ]

\* A fallback body that lost its project_id filter.
FallbackBodyNoFilter(project_id, query_text, query_vec, k) ==
    [ size     |-> Max(k * PoolFactor, MinPool),
      source   |-> Absent,
      filter   |-> {},
      match    |-> Some([field |-> "text", query |-> query_text,
                         boost |-> LexicalBoost, fuzziness |-> Absent]),
      knn      |-> [field |-> "embedding", query_vector |-> query_vec,
                    k |-> Max(k * PoolFactor, MinPool),
                    num_candidates |-> Max(MinCandidates, k * CandidateFactor),
                    boost |-> Absent],
      minimum_should_match |-> Some(1),
      rank     |-> Absent ]

FallbackBody(project_id, query_text, query_vec, k) ==
    [ size     |-> Max(k * PoolFactor, MinPool),
      source   |-> Absent,
      filter   |-> ProjectFilter(project_id),
      match    |-> Some([field |-> "text", query |-> query_text,
                         boost |-> LexicalBoost, fuzziness |-> Absent]),
      knn      |-> [field |-> "embedding", query_vector |-> query_vec,
                    k |-> Max(k * PoolFactor, MinPool),
                    num_candidates |-> Max(MinCandidates, k * CandidateFactor),
                    boost |-> Absent],
      minimum_should_match |-> Some(1),
      rank     |-> Absent ]

----------------------------------------------------------------------------
(* Elasticsearch, as far as the client relies on it *)

\* The documents that pass every term filter of the body.
Matching(body, st) ==
    { i \in 1..Len(st) : \A f \in body.filter : st[i][f.field] = f.value }

\* Sequences of distinct members of S, at most n long.
DistinctSeqs(S, n) ==
    UNION { { s \in [1..m -> S] : \A i, j \in 1..m : i # j => s[i] # s[j] }
            : m \in 0..Min(n, Cardinality(S)) }

\* What es.search may answer: some of the matching documents, each once, at
\* most body.size of them, in the store's relevance order (not modelled
\* further: the score is the descending rank).
SearchAnswers(body, st) ==
    { [ i \in 1..Len(s) |->
          [id |-> st[s[i]].id, text |-> st[s[i]].text, score |-> Len(s) - i + 1] ]
      : s \in DistinctSeqs(Matching(body, st), body.size) }

\* [{"text": h["_source"]["text"], "score": h["_score"]} for h in hits]
Extract(hits) == [ i \in 1..Len(hits) |-> [text |-> hits[i].text, score |-> hits[i].score] ]

----------------------------------------------------------------------------
(* The calls of the store client *)

NoOp == [name |-> "none", project_id |-> 0, text |-> <<>>, query_vec |-> Absent, k |-> 0]

\* The texts and queries callers use under Spec.
Texts == { MkText(1, 1) }

Operations ==
       [name : {"upsert_chunk"}, project_id : Projects, text : Texts,
        query_vec : {Absent}, k : {0}]
  \cup [name : {"knn_search"}, project_id : Projects, text : {<<>>},
        query_vec : {Embed(t) : t \in Texts}, k : {DefaultK}]
  \cup { [name |-> "hybrid_search", project_id |-> p, text |-> t,
          query_vec |-> Embed(t), k |-> k] : p \in Projects, t \in Texts, k \in {DefaultK} }

\* upsert_chunk calls under way that have not written their document yet.
PendingWrites == { c \in Callers : op[c].name = "upsert_chunk" /\ pc[c] # "done" /\ pc[c] # "raised" }

\* A caller starts upsert_chunk, knn_search or hybrid_search; each begins
\* with ensure_index().
Call(c) ==
    /\ pc[c] = "idle"
    /\ \E o \in Operations :
         /\ o.name = "upsert_chunk" => Len(store) + Cardinality(PendingWrites) < MaxDocs
         /\ op' = [op EXCEPT ![c] = o]
    /\ pc' = [pc EXCEPT ![c] = "ensure_index"]
    /\ UNCHANGED <<indices, store, err, sent, res, result, askVars, vertexVars>>

\* Where a call goes on after ensure_index() has returned.
AfterEnsure(c) ==
    CASE op[c].name = "upsert_chunk" -> "index_doc"
      [] op[c].name = "knn_search"   -> "knn_search"
      [] OTHER                       -> "hs_primary"

\* ensure_index, line 33: if not es.indices.exists(index=S.elastic_index)
EnsureIndexExists(c) ==
    /\ pc[c] = "ensure_index"
    /\ pc' = [pc EXCEPT ![c] = IF ElasticIndex \in indices THEN AfterEnsure(c)
                                ELSE "create_index"]
    /\ UNCHANGED <<indices, store, op, err, sent, res, result, askVars, vertexVars>>

\* ensure_index, line 34: es.indices.create(...). Elasticsearch answers a
\* create of an existing index with resource_already_exists_exception, and
\* nothing catches it.
EnsureIndexCreate(c) ==
    /\ pc[c] = "create_index"
    /\ IF ElasticIndex \notin indices
       THEN /\ indices' = indices \cup {ElasticIndex}
            /\ pc' = [pc EXCEPT ![c] = AfterEnsure(c)]
            /\ err' = err
       ELSE /\ indices' = indices
            /\ pc' = [pc EXCEPT ![c] = "raised"]
            /\ err' = [err EXCEPT ![c] = "resource_already_exists_exception"]
    /\ UNCHANGED <<store, op, sent, res, result, askVars, vertexVars>>

\* upsert_chunk, lines 38-45: es.index(...) and return res["_id"]
UpsertIndexDoc(c) ==
    /\ pc[c] = "index_doc"
    /\ LET id == Len(store) + 1
       IN  /\ store' = Append(store, [id |-> id, project_id |-> op[c].project_id,
                                      text |-> op[c].text, tags |-> {},
                                      embedding |-> Embed(op[c].text)])
           /\ result' = [result EXCEPT ![c] = id]
    /\ pc' = [pc EXCEPT ![c] = "done"]
    /\ UNCHANGED <<indices, op, err, sent, res, askVars, vertexVars>>

\* knn_search, lines 49-69, the search answering
KnnSearchOk(c) ==
    /\ pc[c] = "knn_search"
    /\ LET body == KnnBody(op[c].project_id, op[c].query_vec, op[c].k)
       IN  /\ sent' = [sent EXCEPT ![c] = Append(@, body)]
           /\ \E hits \in SearchAnswers(body, store) :
                /\ res' = [res EXCEPT ![c] = hits]
                /\ result' = [result EXCEPT ![c] = Extract(hits)]
    /\ pc' = [pc EXCEPT ![c] = "done"]
    /\ UNCHANGED <<indices, store, op, err, askVars, vertexVars>>

\* knn_search, line 67, the search raising
KnnSearchFails(c) ==
    /\ pc[c] = "knn_search"
    /\ sent' = [sent EXCEPT ![c] =
                  Append(@, KnnBody(op[c].project_id, op[c].query_vec, op[c].k))]
    /\ pc' = [pc EXCEPT ![c] = "raised"]
    /\ err' = [err EXCEPT ![c] = "search_error"]
    /\ UNCHANGED <<indices, store, op, res, result, askVars, vertexVars>>

\* The arguments of the hybrid_search call under way: the caller's own, or
\* those ask passes (main.py line 41).
HsArgs(c) ==
    IF op[c].name = "ask"
    THEN [project_id |-> op[c].project_id, query_text |-> op[c].text,
          query_vec |-> q_vec, k |-> Max(AskMinK, op[c].k)]
    ELSE [project_id |-> op[c].project_id, query_text |-> op[c].text,
          query_vec |-> op[c].query_vec, k |-> op[c].k]

\* Where hybrid_search returns to.
AfterSearch(c) == IF op[c].name = "ask" THEN "ask_docs" ELSE "done"

\* hybrid_search, lines 122 and 149-157: the primary request answering
HybridPrimaryOk(c) ==
    /\ pc[c] = "hs_primary"
    /\ LET a == HsArgs(c)
           body == HybridBody(a.project_id, a.query_text, a.query_vec, a.k)
       IN  /\ sent' = [sent EXCEPT ![c] = Append(@, body)]
           /\ \E hits \in SearchAnswers(body, store) :
                /\ res' = [res EXCEPT ![c] = hits]
                /\ result' = [result EXCEPT ![c] = Extract(hits)]
    /\ pc' = [pc EXCEPT ![c] = AfterSearch(c)]
    /\ UNCHANGED <<indices, store, op, err, askVars, vertexVars>>

\* The primary request's exception leaving hybrid_search.
HybridPrimaryReraises(c) ==
    /\ pc[c] = "hs_primary"
    /\ LET a == HsArgs(c)
       IN  sent' = [sent EXCEPT ![c] =
                      Append(@, HybridBody(a.project_id, a.query_text, a.query_vec, a.k))]
    /\ pc' = [pc EXCEPT ![c] = "raised"]
    /\ err' = [err EXCEPT ![c] = "search_error"]
    /\ UNCHANGED <<indices, store, op, res, result, askVars, vertexVars>>

\* hybrid_search, lines 121-125: the primary request raising any Exception,
\* which the except clause catches
HybridPrimaryFails(c) ==
    /\ pc[c] = "hs_primary"
    /\ LET a == HsArgs(c)
       IN  sent' = [sent EXCEPT ![c] =
                      Append(@, HybridBody(a.project_id, a.query_text, a.query_vec, a.k))]
    /\ pc' = [pc EXCEPT ![c] = "hs_fallback"]
    /\ UNCHANGED <<indices, store, op, err, res, result, askVars, vertexVars>>

\* hybrid_search, lines 126-157: the fallback request answering
HybridFallbackOk(c) ==
    /\ pc[c] = "hs_fallback"
    /\ LET a == HsArgs(c)
           fallback_body == FallbackBody(a.project_id, a.query_text, a.query_vec, a.k)
       IN  /\ sent' = [sent EXCEPT ![c] = Append(@, fallback_body)]
           /\ \E hits \in SearchAnswers(fallback_body, store) :
                /\ res' = [res EXCEPT ![c] = hits]
                /\ result' = [result EXCEPT ![c] = Extract(hits)]
    /\ pc' = [pc EXCEPT ![c] = AfterSearch(c)]
    /\ UNCHANGED <<indices, store, op, err, askVars, vertexVars>>

\* hybrid_search, line 146: the fallback request raising; the exception
\* leaves hybrid_search
HybridFallbackFails(c) ==
    /\ pc[c] = "hs_fallback"
    /\ LET a == HsArgs(c)
       IN  sent' = [sent EXCEPT ![c] =
                      Append(@, FallbackBody(a.project_id, a.query_text, a.query_vec, a.k))]
    /\ pc' = [pc EXCEPT ![c] = "raised"]
    /\ err' = [err EXCEPT ![c] = "search_error"]
    /\ UNCHANGED <<indices, store, op, res, result, askVars, vertexVars>>

\* The call is over; the caller is free for its next one.
Return(c) ==
    /\ pc[c] \in {"done", "raised"}
    /\ pc' = [pc EXCEPT ![c] = "idle"]
    /\ op' = [op EXCEPT ![c] = NoOp]
    /\ err' = [err EXCEPT ![c] = "none"]
    /\ sent' = [sent EXCEPT ![c] = <<>>]
    /\ res' = [res EXCEPT ![c] = <<>>]
    /\ result' = [result EXCEPT ![c] = <<>>]
    /\ UNCHANGED <<indices, store, askVars, vertexVars>>

AskIdle ==
    /\ q_vec = Absent /\ docs = <<>> /\ sel_idx = <<>> /\ selected_docs = <<>>
    /\ used = 0 /\ context_parts = <<>> /\ context = <<>> /\ budget = 1
    /\ prompt = Absent /\ response = Absent

VertexIdle ==
    /\ initialized = FALSE
    /\ vpc = [r \in Requests |-> "done"]
    /\ vop = [r \in Requests |-> "none"]
    /\ initCalls = 0 /\ initOk = 0
    /\ earlyCall = [r \in Requests |-> FALSE]

\* Module import: the client exists, nothing has been created or written.
Init ==
    /\ indices = {}
    /\ store = <<>>
    /\ pc = [c \in Callers |-> "idle"]
    /\ op = [c \in Callers |-> NoOp]
    /\ err = [c \in Callers |-> "none"]
    /\ sent = [c \in Callers |-> <<>>]
    /\ res = [c \in Callers |-> <<>>]
    /\ result = [c \in Callers |-> <<>>]
    /\ AskIdle
    /\ VertexIdle

Next ==
    \E c \in Callers :
        \/ Call(c)
        \/ EnsureIndexExists(c)
        \/ EnsureIndexCreate(c)
        \/ UpsertIndexDoc(c)
        \/ KnnSearchOk(c)
        \/ KnnSearchFails(c)
        \/ HybridPrimaryOk(c)
        \/ HybridPrimaryFails(c)
        \/ HybridFallbackOk(c)
        \/ HybridFallbackFails(c)
        \/ Return(c)

Spec == Init /\ [][Next]_vars

----------------------------------------------------------------------------
(* The /ask handler (main.py) *)

NoMemory == <<"[No prior memory found yet]">>
BlankLine == <<NL, NL>>

\* retriever.mmr: some choice of min(k, |pool|) distinct indices of the pool
\* (1-based here), in selection order.
mmr(query_vec, pool, pool_vecs, k) ==
    { s \in DistinctSeqs(1..Len(pool), k) : Len(s) = Min(k, Len(pool)) }

\* main.py line 51: the k ask gives mmr
MmrK(req_k, pool) == Min(MmrMaxK, Len(pool))

\* A budget loop that skips an item that does not fit and goes on.
RECURSIVE BudgetLoopContinue(_, _, _)
BudgetLoopContinue(parts, rest, tokens) ==
    IF rest = <<>> THEN parts
    ELSE IF approx_token_count(Join(<<NL>>, parts)) + approx_token_count(Head(rest)) < tokens
         THEN BudgetLoopContinue(Append(parts, Head(rest)), Tail(rest), tokens)
         ELSE BudgetLoopContinue(parts, Tail(rest), tokens)

\* main.py lines 57-62: the budget loop, from context_parts = parts with the
\* items rest still to visit
RECURSIVE BudgetLoop(_, _, _)
BudgetLoop(parts, rest, tokens) ==
    IF rest = <<>> THEN parts
    ELSE IF approx_token_count(Join(<<NL>>, parts)) + approx_token_count(Head(rest)) < tokens
         THEN BudgetLoop(Append(parts, Head(rest)), Tail(rest), tokens)
         ELSE parts

\* main.py lines 74-88: the parts of the prompt that vary
Prompt(ctx, query) == [memory |-> IF ctx # <<>> THEN ctx ELSE NoMemory, question |-> query]

\* main.py line 38: q_vec = get_embedding(req.query)
AskEmbedQueryOk(c) ==
    /\ pc[c] = "ask_start"
    /\ q_vec' = Embed(op[c].text)
    /\ pc' = [pc EXCEPT ![c] = "ensure_index"]
    /\ UNCHANGED <<indices, store, op, err, sent, res, result, docs, sel_idx,
                   selected_docs, used, context_parts, context, budget, prompt,
                   response, vertexVars>>

\* main.py line 38: get_embedding raising; nothing in ask catches it
AskEmbedQueryFails(c) ==
    /\ pc[c] = "ask_start"
    /\ pc' = [pc EXCEPT ![c] = "raised"]
    /\ err' = [err EXCEPT ![c] = "embedding_error"]
    /\ UNCHANGED <<indices, store, op, sent, res, result, askVars, vertexVars>>

\* main.py lines 42-47 and 74-88: no hit came back
AskNoDocs(c) ==
    /\ pc[c] = "ask_docs"
    /\ result[c] = <<>>
    /\ docs' = <<>>
    /\ context' = <<>>
    /\ used' = 0
    /\ selected_docs' = <<>>
    /\ prompt' = Prompt(<<>>, op[c].text)
    /\ pc' = [pc EXCEPT ![c] = "ask_generate"]
    /\ UNCHANGED <<indices, store, op, err, sent, res, result, q_vec, sel_idx,
                   context_parts, budget, response, vertexVars>>

\* main.py lines 42 and 49-63, 74-88: rerank the hits and build the context
AskSelect(c) ==
    /\ pc[c] = "ask_docs"
    /\ result[c] # <<>>
    /\ LET ds == [i \in 1..Len(result[c]) |-> result[c][i].text]
           doc_vecs == [i \in 1..Len(ds) |-> Embed(ds[i])]
       IN  \E idx \in mmr(q_vec, ds, doc_vecs, MmrK(op[c].k, ds)) :
             LET sel   == [i \in 1..Len(idx) |-> ds[idx[i]]]
                 parts == BudgetLoop(<<>>, sel, budget)
             IN  /\ docs' = ds
                 /\ sel_idx' = idx
                 /\ selected_docs' = sel
                 /\ used' = Len(sel)
                 /\ context_parts' = parts
                 /\ context' = Join(BlankLine, parts)
                 /\ prompt' = Prompt(Join(BlankLine, parts), op[c].text)
    /\ pc' = [pc EXCEPT ![c] = "ask_generate"]
    /\ UNCHANGED <<indices, store, op, err, sent, res, result, q_vec, budget,
                   response, vertexVars>>

\* main.py line 50: get_embedding raising for one of the documents
AskEmbedDocsFails(c) ==
    /\ pc[c] = "ask_docs"
    /\ result[c] # <<>>
    /\ docs' = [i \in 1..Len(result[c]) |-> result[c][i].text]
    /\ pc' = [pc EXCEPT ![c] = "raised"]
    /\ err' = [err EXCEPT ![c] = "embedding_error"]
    /\ UNCHANGED <<indices, store, op, sent, res, result, q_vec, sel_idx,
                   selected_docs, used, context_parts, context, budget, prompt,
                   response, vertexVars>>

\* main.py lines 91-101: the answer is generated and the response returned
AskGenerateOk(c) ==
    /\ pc[c] = "ask_generate"
    /\ response' = [response |-> "text", used_snippets |-> used, prompt |-> prompt]
    /\ pc' = [pc EXCEPT ![c] = "done"]
    /\ UNCHANGED <<indices, store, op, err, sent, res, result, q_vec, docs, sel_idx,
                   selected_docs, used, context_parts, context, budget, prompt,
                   vertexVars>>

\* main.py lines 93-94: generate_text raising becomes HTTP 500
AskGenerateFails(c) ==
    /\ pc[c] = "ask_generate"
    /\ pc' = [pc EXCEPT ![c] = "raised"]
    /\ err' = [err EXCEPT ![c] = "http_500_generation_failed"]
    /\ UNCHANGED <<indices, store, op, sent, res, result, askVars, vertexVars>>

\* The stores earlier ingests can have left: document i holds its own text.
Stores ==
    UNION { [ 1..n -> [project_id : Projects, len : 1..MaxDocLen] ] : n \in 0..MaxPool }

\* One /ask request arrives (caller 1); the store holds what earlier /ingest
\* requests wrote.
InitAsk ==
    /\ \E st \in Stores :
         store = [ i \in 1..Len(st) |->
                     [id |-> i, project_id |-> st[i].project_id,
                      text |-> MkText(i, st[i].len), tags |-> {},
                      embedding |-> Embed(MkText(i, st[i].len))] ]
    /\ indices \in (IF store = <<>> THEN {{}, {ElasticIndex}} ELSE {{ElasticIndex}})
    /\ pc = [c \in Callers |-> IF c = 1 THEN "ask_start" ELSE "idle"]
    /\ \E p \in Projects, k \in 1..MaxReqK :
         op = [c \in Callers |->
                 IF c = 1 THEN [name |-> "ask", project_id |-> p, text |-> MkText(1, 1),
                                query_vec |-> Absent, k |-> k]
                 ELSE NoOp]
    /\ err = [c \in Callers |-> "none"]
    /\ sent = [c \in Callers |-> <<>>]
    /\ res = [c \in Callers |-> <<>>]
    /\ result = [c \in Callers |-> <<>>]
    /\ q_vec = Absent /\ docs = <<>> /\ sel_idx = <<>> /\ selected_docs = <<>>
    /\ used = 0 /\ context_parts = <<>> /\ context = <<>>
    /\ budget \in 1..MaxBudget
    /\ prompt = Absent /\ response = Absent
    /\ VertexIdle

NextAsk ==
    \E c \in Callers :
        \/ AskEmbedQueryOk(c)
        \/ AskEmbedQueryFails(c)
        \/ EnsureIndexExists(c)
        \/ EnsureIndexCreate(c)
        \/ HybridPrimaryOk(c)
        \/ HybridPrimaryFails(c)
        \/ HybridFallbackOk(c)
        \/ HybridFallbackFails(c)
        \/ AskNoDocs(c)
        \/ AskSelect(c)
        \/ AskEmbedDocsFails(c)
        \/ AskGenerateOk(c)
        \/ AskGenerateFails(c)

SpecAsk == InitAsk /\ [][NextAsk]_vars

----------------------------------------------------------------------------
(* Lazy initialisation of the Vertex AI backend (vertex_ai.py) *)

\* A request enters get_embedding or generate_text, whose first statement
\* is _init().
VertexCall(r) ==
    /\ vpc[r] = "idle"
    /\ \E f \in {"get_embedding", "generate_text"} : vop' = [vop EXCEPT ![r] = f]
    /\ vpc' = [vpc EXCEPT ![r] = "init_check"]
    /\ UNCHANGED <<initialized, initCalls, initOk, earlyCall, storeVars, askVars>>

\* An _init that sets the flag before vertexai.init has run.
InitCheckSetsFlagFirst(r) ==
    /\ vpc[r] = "init_check"
    /\ vpc' = [vpc EXCEPT ![r] = IF initialized THEN "model_call" ELSE "vertexai_init"]
    /\ initialized' = TRUE
    /\ UNCHANGED <<vop, initCalls, initOk, earlyCall, storeVars, askVars>>

\* _init, line 22: if not _initialized
InitCheck(r) ==
    /\ vpc[r] = "init_check"
    /\ vpc' = [vpc EXCEPT ![r] = IF initialized THEN "model_call" ELSE "vertexai_init"]
    /\ UNCHANGED <<initialized, vop, initCalls, initOk, earlyCall, storeVars, askVars>>

\* _init, lines 24-30: vertexai.init(...) returns
InitCallOk(r) ==
    /\ vpc[r] = "vertexai_init"
    /\ initCalls' = initCalls + 1
    /\ initOk' = initOk + 1
    /\ vpc' = [vpc EXCEPT ![r] = "set_flag"]
    /\ UNCHANGED <<initialized, vop, earlyCall, storeVars, askVars>>

\* _init, lines 32-34: vertexai.init(...) raises; printed and raised again
InitCallFails(r) ==
    /\ vpc[r] = "vertexai_init"
    /\ initCalls' = initCalls + 1
    /\ vpc' = [vpc EXCEPT ![r] = "init_failed"]
    /\ UNCHANGED <<initialized, vop, initOk, earlyCall, storeVars, askVars>>

\* _init, line 31: _initialized = True
InitSetFlag(r) ==
    /\ vpc[r] = "set_flag"
    /\ initialized' = TRUE
    /\ vpc' = [vpc EXCEPT ![r] = "model_call"]
    /\ UNCHANGED <<vop, initCalls, initOk, earlyCall, storeVars, askVars>>

\* get_embedding lines 41-43 / generate_text lines 53-55: the model answers
ModelCallOk(r) ==
    /\ vpc[r] = "model_call"
    /\ earlyCall' = [earlyCall EXCEPT ![r] = (initOk = 0)]
    /\ vpc' = [vpc EXCEPT ![r] = "done"]
    /\ UNCHANGED <<initialized, vop, initCalls, initOk, storeVars, askVars>>

\* get_embedding lines 44-46 / generate_text lines 56-58: the model call raises
ModelCallFails(r) ==
    /\ vpc[r] = "model_call"
    /\ earlyCall' = [earlyCall EXCEPT ![r] = (initOk = 0)]
    /\ vpc' = [vpc EXCEPT ![r] = "model_failed"]
    /\ UNCHANGED <<initialized, vop, initCalls, initOk, storeVars, askVars>>

\* The steps of a request that has entered vertex_ai.
VertexStep(r) ==
    \/ InitCheck(r)
    \/ InitCallOk(r)
    \/ InitCallFails(r)
    \/ InitSetFlag(r)
    \/ ModelCallOk(r)
    \/ ModelCallFails(r)

\* Module import (line 16): _initialized = False; no request yet.
InitVertex ==
    /\ initialized = FALSE
    /\ vpc = [r \in Requests |-> "idle"]
    /\ vop = [r \in Requests |-> "none"]
    /\ initCalls = 0 /\ initOk = 0
    /\ earlyCall = [r \in Requests |-> FALSE]
    /\ indices = {} /\ store = <<>>
    /\ pc = [c \in Callers |-> "idle"]
    /\ op = [c \in Callers |-> NoOp]
    /\ err = [c \in Callers |-> "none"]
    /\ sent = [c \in Callers |-> <<>>]
    /\ res = [c \in Callers |-> <<>>]
    /\ result = [c \in Callers |-> <<>>]
    /\ AskIdle

NextVertex == \E r \in Requests : VertexCall(r) \/ VertexStep(r)

\* Each request runs on its own worker thread, which the interpreter keeps
\* scheduling; the calls into the backend return or raise.
SpecVertex ==
    InitVertex /\ [][NextVertex]_vars /\ \A r \in Requests : WF_vars(VertexStep(r))

----------------------------------------------------------------------------
(* Properties *)

IsSearch(c) == op[c].name \in {"knn_search", "hybrid_search"}
IsAsk(c)    == op[c].name = "ask"

\* The check the budget loop makes for item i of sel, given the items before
\* it were all kept.
Fits(sel, i, tokens) ==
    approx_token_count(Join(<<NL>>, SubSeq(sel, 1, i - 1))) + approx_token_count(sel[i]) < tokens

\* C1: tenant isolation. Every request body a search sends carries the term
\* filter on its own project_id, every hit a search gets back is a document
\* that was written under that project_id, and what the search returns is the
\* projection of those hits: knn_search, hybrid_search on the primary path and
\* hybrid_search on the fallback path alike.
C1_TenantIsolation ==
    \A c \in Callers :
        IsSearch(c) =>
            /\ \A i \in 1..Len(sent[c]) :
                 ProjectFilter(op[c].project_id) \subseteq sent[c][i].filter
            /\ \A i \in 1..Len(res[c]) :
                 store[res[c][i].id].project_id = op[c].project_id
            /\ pc[c] = "done" => result[c] = Extract(res[c])

\* A hybrid_search scoped to one project has returned a hit on its fallback
\* path while the store also holds a document of the other project.
C1_Witness ==
    \E c \in Callers :
        /\ op[c].name = "hybrid_search" /\ pc[c] = "done"
        /\ Len(sent[c]) = 2 /\ result[c] # <<>>
        /\ \E i \in 1..Len(store) : store[i].project_id # op[c].project_id

\* C2 (as claimed): no caller of ensure_index ever raises because the index
\* already exists, and once a create has been attempted exactly one index
\* exists.
C2_EnsureIndexNeverRaises ==
    /\ \A c \in Callers : err[c] # "resource_already_exists_exception"
    /\ Cardinality(indices) <= 1

\* C3: in hybrid_search a failure of the primary request is never raised to
\* the caller; it is followed by exactly one fallback request, which carries
\* no rank stage, and when that one answers hybrid_search returns its hits.
C3_FallbackNotRaised ==
    \A c \in Callers :
        op[c].name = "hybrid_search" =>
            /\ Len(sent[c]) <= 2
            /\ pc[c] = "hs_fallback" => Len(sent[c]) = 1
            /\ (pc[c] = "raised" /\ err[c] = "search_error") => Len(sent[c]) = 2
            /\ Len(sent[c]) = 2 => sent[c][1].rank # Absent /\ sent[c][2].rank = Absent
            /\ pc[c] = "done" => result[c] = Extract(res[c])

\* The primary request failed, the fallback answered with a hit, and
\* hybrid_search returned it.
C3_Witness ==
    \E c \in Callers :
        /\ op[c].name = "hybrid_search" /\ pc[c] = "done"
        /\ Len(sent[c]) = 2 /\ Len(result[c]) >= 1

\* C4 (as claimed): when ask has built its context from a non-empty
\* selection, the context's approximate token count is below the budget if
\* the first selected item alone fits, and the context is empty if not.
C4_ContextUnderBudget ==
    \A c \in Callers :
        (IsAsk(c) /\ pc[c] \in {"ask_generate", "done"} /\ selected_docs # <<>>) =>
            IF approx_token_count(selected_docs[1]) < budget
            THEN approx_token_count(context) < budget
            ELSE context = <<>>

\* C5 (as claimed): the used_snippets of the response is the number of items
\* the context holds.
C5_UsedEqualsIncluded ==
    \A c \in Callers :
        (IsAsk(c) /\ pc[c] = "done") => response.used_snippets = Len(context_parts)

\* C6 (as claimed): when hybrid_search raises inside ask, ask does not fail:
\* it goes on to text generation with an empty context and no used snippets.
C6_AskSurvivesRetrievalFailure ==
    \A c \in Callers :
        (IsAsk(c) /\ err[c] = "search_error") =>
            /\ pc[c] \in {"ask_generate", "done"}
            /\ context = <<>> /\ used = 0

\* C7 (as claimed): the fallback request is the primary one without its rank
\* stage: same size, same project filter, same lexical clause (query, boost,
\* fuzziness), same k-NN clause and same minimum_should_match.
C7_FallbackIsPrimaryWithoutRank ==
    \A c \in Callers :
        Len(sent[c]) = 2 =>
            LET primary == sent[c][1]  fallback == sent[c][2]
            IN  /\ primary.rank # Absent /\ fallback.rank = Absent
                /\ fallback.size = primary.size
                /\ fallback.filter = primary.filter
                /\ fallback.match = primary.match
                /\ fallback.knn.field = primary.knn.field
                /\ fallback.knn.query_vector = primary.knn.query_vector
                /\ fallback.knn.k = primary.knn.k
                /\ fallback.knn.num_candidates = primary.knn.num_candidates
                /\ fallback.minimum_should_match = primary.minimum_should_match

\* C8 (as claimed): the selection ask makes, and so the used count, is at
\* most the k of the request.
C8_SelectionWithinRequestedK ==
    \A c \in Callers :
        (IsAsk(c) /\ pc[c] \in {"ask_generate", "done"}) =>
            /\ Len(selected_docs) <= op[c].k
            /\ used <= op[c].k

\* C9: the items of the context are a prefix of the selection, in selection
\* order and whole (the context is their blank-line join); every kept item
\* passed the budget check, and the first item left out failed it, whatever
\* comes after it.
C9_ContextIsPrefix ==
    \A c \in Callers :
        (IsAsk(c) /\ pc[c] \in {"ask_generate", "done"}) =>
            LET n == Len(context_parts)
            IN  /\ n <= Len(selected_docs)
                /\ context_parts = SubSeq(selected_docs, 1, n)
                /\ context = Join(BlankLine, SubSeq(selected_docs, 1, n))
                /\ \A i \in 1..n : Fits(selected_docs, i, budget)
                /\ n < Len(selected_docs) => ~Fits(selected_docs, n + 1, budget)

\* An item failed the budget check and a later item, which would have fitted
\* after the kept ones, was dropped with it.
C9_Witness ==
    \E c \in Callers :
        /\ IsAsk(c) /\ pc[c] = "done"
        /\ \E j \in 1..Len(selected_docs) :
             /\ j > Len(context_parts) + 1
             /\ approx_token_count(Join(<<NL>>, context_parts))
                  + approx_token_count(selected_docs[j]) < budget

\* The safety part of C10.
C10_Safety ==
    /\ initialized => initOk >= 1
    /\ \A r \in Requests : ~earlyCall[r]
    /\ \A r \in Requests : vpc[r] \in {"model_call", "done", "model_failed"} => initOk >= 1
    /\ initCalls <= Cardinality({ r \in Requests : vpc[r] \notin {"idle", "init_check", "vertexai_init"} })

VertexFinished(r) == vpc[r] \in {"done", "init_failed", "model_failed"}

\* C10: under every interleaving of concurrent get_embedding / generate_text
\* calls the flag is set only once some vertexai.init has returned normally
\* (so a failed init leaves it unset and the next call tries again), no
\* request reaches its model call before some init has succeeded, each request
\* calls vertexai.init at most once, and every request that has entered
\* finishes, by returning or by raising.
C10_LazyInitTolerant ==
    /\ []C10_Safety
    /\ \A r \in Requests : (vpc[r] # "idle") ~> VertexFinished(r)

\* Two requests both called vertexai.init, one of them failing, and a request
\* has completed its model call.
C10_Witness ==
    /\ initCalls >= 2 /\ initOk >= 1 /\ initialized
    /\ \E r \in Requests : vpc[r] = "init_failed"
    /\ \E r \in Requests : vpc[r] = "done"

====
